---- MODULE Spec2Model ----
(***************************************************************************)
(* Model of node-apriori (src/src/apriori.ts): the Apriori class, its      *)
(* exec method and the helpers exec calls.  Items are the integers         *)
(* 1..MaxItem; the support held in the _support field is a rational        *)
(* num/den (the constructor's fraction, then the absolute count that exec  *)
(* overwrites it with), with exact arithmetic in place of IEEE doubles.    *)
(***************************************************************************)
EXTENDS Integers, Sequences, FiniteSets, TLC

VARIABLES
  _support,          \* this._support: the constructor's fraction, then what exec stores
  _transactions,     \* this._transactions
  listener,          \* what the registered 'data' listener does: "returns" or "throws"
  pc,                \* "Idle", "Loop" (inside exec's while), "Done", "Rejected"
  frequentItemsets,  \* exec's local array of levels
  i,                 \* exec's local loop index
  result,            \* the value the promise resolved with
  log,               \* what the caller observed of this exec: data, callback, resolve, reject
  evaluated,         \* how many candidates this exec has counted, over all levels
  execs,             \* how many exec calls the miner has had
  ctorSupport,       \* the number the constructor was given
  prev               \* the previous exec's itemsets, when this exec repeats its input

vars == <<_support, _transactions, listener, pc, frequentItemsets, i, result, log, evaluated, execs, ctorSupport, prev>>

\* ------------------------------------------------------------------ bounds
MaxItem == 3
MaxTxLen == 2
MaxTx == 2
MaxExecs == 2

Items == 1..MaxItem

\* ------------------------------------------------------------- sequences
Range(s) == { s[j] : j \in 1..Len(s) }

\* Array.prototype.indexOf(item): the first (0-based) index, or -1.
IndexOf(arr, item) == IF \E j \in 1..Len(arr) : arr[j] = item THEN (CHOOSE j \in 1..Len(arr) : arr[j] = item /\ \A h \in 1..(j - 1) : arr[h] # item) - 1 ELSE -1

\* items.slice(from) with a 0-based start index.
Slice(arr, from) == SubSeq(arr, from + 1, Len(arr))

RECURSIVE Flatten(_)
RECURSIVE FlattenBackwards(_)
\* Mutant of Flatten: the levels are laid out last to first.
FlattenBackwards(arrays) == IF arrays = <<>> THEN <<>> ELSE FlattenBackwards(Tail(arrays)) \o Head(arrays)

\* [].concat.apply([], arrays): the arrays laid end to end.
Flatten(arrays) == IF arrays = <<>> THEN <<>> ELSE Head(arrays) \o Flatten(Tail(arrays))

\* ----------------------------------------------------------------- inputs
\* Sequences over S of length at most n.
SeqsUpTo(S, n) == UNION { [1..m -> S] : m \in 0..n }

\* A transaction lists its items in non-decreasing order; an item may repeat.
IsOrdered(t) == \A j \in 1..(Len(t) - 1) : t[j] <= t[j + 1]

Transaction == { t \in SeqsUpTo(Items, MaxTxLen) : IsOrdered(t) }

TransactionLists == SeqsUpTo(Transaction, MaxTx)

\* The numbers handed to the constructor: 0.4 (the README's), 2/3, and the
\* out-of-range values 0, 1 and 2, which the constructor takes as they come.
Frac(n, d) == [num |-> n, den |-> d]

SupportArgs == { Frac(2, 5), Frac(2, 3), Frac(0, 1), Frac(1, 1), Frac(2, 1) }

\* 0 < s < 1
InOpenUnit(s) == 0 < s.num /\ s.num < s.den

\* Math.ceil(s * n) for a rational s >= 0 and an integer n >= 0.
CeilMul(s, n) == ((s.num * n) + s.den - 1) \div s.den

\* count >= s
AtLeast(count, s) == count * s.den >= s.num

\* ------------------------------------------------------------------- JSON
\* JSON.stringify and JSON.parse on the items of the model: an integer is
\* written as its decimal numeral and read back from it.
Numerals == <<"1", "2", "3", "4", "5", "6", "7", "8", "9">>

JSONstringify(item) == Numerals[item]

JSONparse(text) == CHOOSE n \in 1..Len(Numerals) : Numerals[n] = text

\* Object.keys(count): integer-like keys come first in ascending numeric
\* order, whatever the order they were inserted in.
ObjectKeys(count) == SelectSeq(Numerals, LAMBDA key : key \in DOMAIN count)

\* -------------------------------------------------------------- itemsets
Itemset(its, sup) == [items |-> its, support |-> sup]

\* count[JSON.stringify(item)] = (count[JSON.stringify(item)] || 0) + 1
CountItem(count, item) == LET key == JSONstringify(item) IN IF key \in DOMAIN count THEN [count EXCEPT ![key] = @ + 1] ELSE [k \in (DOMAIN count) \cup {key} |-> IF k = key THEN 1 ELSE count[k]]

RECURSIVE CountArr(_, _)
CountArr(count, arr) == IF arr = <<>> THEN count ELSE CountArr(CountItem(count, Head(arr)), Tail(arr))

RECURSIVE CountTransactions(_, _)
CountTransactions(count, transactions) == IF transactions = <<>> THEN count ELSE CountTransactions(CountArr(count, Head(transactions)), Tail(transactions))

\* _getDistinctItemsCount: every occurrence of an item adds one to its key.
EmptyObject == [k \in {} |-> 0]

GetDistinctItemsCount(transactions) == CountTransactions(EmptyObject, transactions)

\* getFrequentOneItemsets, without its emits: the keys of the count object
\* in Object.keys order, kept when count >= this._support.
OneItemset(count, key) == Itemset(<<JSONparse(key)>>, count[key])

FrequentOne(count, support) == LET keys == SelectSeq(ObjectKeys(count), LAMBDA key : AtLeast(count[key], support)) IN [j \in 1..Len(keys) |-> OneItemset(count, keys[j])]

GetFrequentOneItemsets(transactions, support) == FrequentOne(GetDistinctItemsCount(transactions), support)

\* _generateKCandidates(items, k)
RECURSIVE GenerateKCandidates(_, _)
RECURSIVE GenerateFrom(_, _, _)
RECURSIVE GenerateFromShort(_, _, _)
\* Mutant of GenerateFrom: the for loop stops one position early
\* (i < items.length - k).
GenerateFromShort(items, k, at) == IF at < Len(items) - k THEN LET head == SubSeq(items, at + 1, at + 1) tails == GenerateKCandidates(Slice(items, at + 1), k - 1) IN [j \in 1..Len(tails) |-> Itemset(head \o tails[j].items, 0)] \o GenerateFromShort(items, k, at + 1) ELSE <<>>

\* The for loop of _generateKCandidates, from i = at on.
GenerateFrom(items, k, at) == IF at < Len(items) - k + 1 THEN LET head == SubSeq(items, at + 1, at + 1) tails == GenerateKCandidates(Slice(items, at + 1), k - 1) IN [j \in 1..Len(tails) |-> Itemset(head \o tails[j].items, 0)] \o GenerateFrom(items, k, at + 1) ELSE <<>>

\* Mutant of GenerateKCandidates: the first two preconditions are merged
\* (k >= items.length returns the items themselves).
GenerateKCandidatesLoose(items, k) == IF k <= 0 THEN <<>> ELSE IF k >= Len(items) THEN <<Itemset(items, 0)>> ELSE IF k = 1 THEN [j \in 1..Len(items) |-> Itemset(<<items[j]>>, 0)] ELSE GenerateFrom(items, k, 0)

GenerateKCandidates(items, k) == IF k > Len(items) \/ k <= 0 THEN <<>> ELSE IF k = Len(items) THEN <<Itemset(items, 0)>> ELSE IF k = 1 THEN [j \in 1..Len(items) |-> Itemset(<<items[j]>>, 0)] ELSE GenerateFrom(items, k, 0)

\* candidate.items.every(item => transaction.indexOf(item) !== -1)
IncludesCandidate(transaction, candidate) == \A j \in 1..Len(candidate.items) : IndexOf(transaction, candidate.items[j]) # -1

\* _getCandidatesCount: each candidate's support grows by one per transaction
\* that includes it.
CandidateCount(transactions, candidate) == Itemset(candidate.items, candidate.support + Cardinality({ j \in 1..Len(transactions) : IncludesCandidate(transactions[j], candidate) }))

GetCandidatesCount(transactions, candidates) == [j \in 1..Len(candidates) |-> CandidateCount(transactions, candidates[j])]

\* The items of the frequent n-itemsets, concatenated, then filtered to the
\* first occurrence of each: that.indexOf(item) === index.
RECURSIVE ConcatItems(_)
ConcatItems(itemsets) == IF itemsets = <<>> THEN <<>> ELSE Head(itemsets).items \o ConcatItems(Tail(itemsets))

\* Mutant of UniqueItems: the filter is missing, every occurrence is kept.
UniqueItemsKeepAll(all) == all

UniqueItems(all) == LET keep == { j \in 1..Len(all) : IndexOf(all, all[j]) = j - 1 } pick[j \in 0..Len(all)] == IF j = 0 THEN <<>> ELSE IF j \in keep THEN Append(pick[j - 1], all[j]) ELSE pick[j - 1] IN pick[Len(all)]

\* The candidates getFrequentKItemsets counts, with their supports.
KCandidates(transactions, frequentNItemsets) == IF Len(frequentNItemsets) = 0 THEN <<>> ELSE LET k == Len(frequentNItemsets[1].items) + 1 items == UniqueItems(ConcatItems(frequentNItemsets)) IN GetCandidatesCount(transactions, GenerateKCandidates(items, k))

IsFrequent(itemset, support) == AtLeast(itemset.support, support)

\* Mutant of LoopTest: the loop goes on after an empty level (>= 0).
LoopTestAlways(level) == Len(level) >= 0

\* The while loop's test: frequentItemsets[i].length > 0.
LoopTest(level) == Len(level) > 0

\* ---------------------------------------------------------- notification
NoItemset == Itemset(<<>>, 0)

Event(type, itemset) == [type |-> type, itemset |-> itemset]

\* this.emit('data', itemset) calls the listener inline; a listener that
\* throws ends the enclosing reduce or filter at the first frequent itemset.
Threw(frequent) == listener = "throws" /\ Len(frequent) > 0

Notified(frequent) == IF Threw(frequent) THEN <<frequent[1]>> ELSE frequent

DataEvents(frequent) == LET told == Notified(frequent) IN [j \in 1..Len(told) |-> Event("data", told[j])]

\* The promise's value: its itemsets field (executionTime, a clock reading,
\* is left out).
NoResult == [itemsets |-> <<>>]

NoPrev == [same |-> FALSE, itemsets |-> <<>>]

\* ----------------------------------------------------------------- state
\* new Apriori(support): the argument is stored unchecked.
InitWith(listeners) ==
  /\ ctorSupport \in SupportArgs
  /\ _support = ctorSupport
  /\ _transactions = <<>>
  /\ listener \in listeners
  /\ pc = "Idle"
  /\ frequentItemsets = <<>>
  /\ i = 0
  /\ result = NoResult
  /\ log = <<>>
  /\ evaluated = 0
  /\ execs = 0
  /\ prev = NoPrev

Init == InitWith({"returns"})

InitFault == InitWith({"returns", "throws"})

\* exec, from its entry to the first test of the while loop: the two
\* assignments, then, inside the promise executor, getFrequentOneItemsets.
Start(transactions) ==
  LET support == Frac(CeilMul(_support, Len(transactions)), 1)
      count == GetDistinctItemsCount(transactions)
      one == FrequentOne(count, support)
  IN /\ _transactions' = transactions
     /\ _support' = support
     /\ execs' = execs + 1
     /\ result' = NoResult
     /\ evaluated' = Len(ObjectKeys(count))
     /\ i' = 0
     /\ IF Threw(one)
        THEN /\ pc' = "Rejected"
             /\ frequentItemsets' = <<>>
             /\ log' = DataEvents(one) \o <<Event("reject", NoItemset)>>
        ELSE /\ pc' = "Loop"
             /\ frequentItemsets' = <<one>>
             /\ log' = DataEvents(one)
     /\ UNCHANGED <<listener, ctorSupport>>

\* The first exec call on a miner.
Exec ==
  /\ pc = "Idle"
  /\ prev' = NoPrev
  /\ \E transactions \in TransactionLists : Start(transactions)

\* A later exec call on the same miner, after the previous one settled.
ExecAgain ==
  /\ pc \in {"Done", "Rejected"}
  /\ execs < MaxExecs
  /\ \E transactions \in TransactionLists :
        /\ prev' = IF pc = "Done" /\ transactions = _transactions THEN [same |-> TRUE, itemsets |-> result.itemsets] ELSE NoPrev
        /\ Start(transactions)

\* What the rest of an iteration does with the frequent k-itemsets, having
\* counted `counted` candidates: they are emitted one by one, then pushed.
Push(frequent, counted) ==
  /\ evaluated' = evaluated + counted
  /\ IF Threw(frequent)
     THEN /\ pc' = "Rejected"
          /\ log' = log \o DataEvents(frequent) \o <<Event("reject", NoItemset)>>
          /\ UNCHANGED <<frequentItemsets, i>>
     ELSE /\ pc' = "Loop"
          /\ log' = log \o DataEvents(frequent)
          /\ frequentItemsets' = Append(frequentItemsets, frequent)
          /\ i' = i + 1

\* One iteration of the while loop: frequentItemsets[i] passes the test, and
\* getFrequentKItemsets(frequentItemsets[i]) is pushed.  Each bound name is
\* the value of one local or intermediate result of getFrequentKItemsets.
LoopStep ==
  /\ pc = "Loop"
  /\ LoopTest(frequentItemsets[i + 1])
  /\ \E frequentNItemsets \in {frequentItemsets[i + 1]} :
       IF Len(frequentNItemsets) = 0
       THEN Push(<<>>, 0)
       ELSE \E k \in {Len(frequentNItemsets[1].items) + 1} :
            \E items \in {UniqueItems(ConcatItems(frequentNItemsets))} :
            \E generated \in {GenerateKCandidates(items, k)} :
            \E candidates \in {GetCandidatesCount(_transactions, generated)} :
            \E frequent \in {SelectSeq(candidates, LAMBDA itemset : IsFrequent(itemset, _support))} :
              Push(frequent, Len(candidates))
  /\ UNCHANGED <<_support, _transactions, listener, result, execs, ctorSupport, prev>>

\* The loop ends on an empty level: the result is formatted, the callback
\* (when exec was given one) is called with it, then the promise resolves
\* with it.
Finish ==
  /\ pc = "Loop"
  /\ ~LoopTest(frequentItemsets[i + 1])
  /\ result' = [itemsets |-> Flatten(frequentItemsets)]
  /\ \E callback \in BOOLEAN : log' = log \o (IF callback THEN <<Event("callback", NoItemset)>> ELSE <<>>) \o <<Event("resolve", NoItemset)>>
  /\ pc' = "Done"
  /\ UNCHANGED <<_support, _transactions, listener, frequentItemsets, i, evaluated, execs, ctorSupport, prev>>

Next ==
  \/ Exec
  \/ LoopStep
  \/ Finish

NextReuse ==
  \/ Next
  \/ ExecAgain

\* One exec on a freshly constructed miner whose listener returns.
Spec == Init /\ [][Next]_vars

\* The same, where the code once started runs on: exec is synchronous, and
\* nothing but exec's own statements stands between its entry and its end.
SpecLive == Init /\ [][Next]_vars /\ WF_vars(LoopStep) /\ WF_vars(Finish)

\* A miner that is used again after an exec settled.
SpecReuse == Init /\ [][NextReuse]_vars

\* A miner whose listener may throw.
SpecFault == InitFault /\ [][Next]_vars

\* The whole of exec's computation with a listener that returns: level one,
\* then one level more for as long as the last level is not empty.
RECURSIVE Levels(_, _, _)
Levels(transactions, support, levels) == IF LoopTest(levels[Len(levels)]) THEN Levels(transactions, support, Append(levels, SelectSeq(KCandidates(transactions, levels[Len(levels)]), LAMBDA itemset : IsFrequent(itemset, support)))) ELSE levels

Mine(transactions, support) == Flatten(Levels(transactions, support, <<FrequentOne(GetDistinctItemsCount(transactions), support)>>))

\* ------------------------------------------------------------ properties
\* The number of transactions that contain every item of the set S, by a
\* direct scan.
Support(S, transactions) == Cardinality({ j \in 1..Len(transactions) : S \subseteq Range(transactions[j]) })

ItemsIn(transactions) == UNION { Range(transactions[j]) : j \in 1..Len(transactions) }

\* ceil(f x transactionCount) for the constructor's fraction f.
Threshold == CeilMul(ctorSupport, Len(_transactions))

Returned == result.itemsets

\* The itemsets of the levels computed so far, level after level.
Found == LET upTo[n \in 0..Len(frequentItemsets)] == IF n = 0 THEN <<>> ELSE upTo[n - 1] \o frequentItemsets[n] IN upTo[Len(frequentItemsets)]

DataLog == SelectSeq(log, LAMBDA e : e.type = "data")

\* The itemsets the listener was called with, in the order of the calls.
Told == LET data == DataLog IN [j \in 1..Len(data) |-> data[j].itemset]

Without(seq, p) == SubSeq(seq, 1, p - 1) \o SubSeq(seq, p + 1, Len(seq))

HasSize(itemsets, n) == \E j \in 1..Len(itemsets) : Len(itemsets[j].items) = n

\* C1: completeness.  After an exec on a fresh miner with 0 < f < 1, every
\* non-empty set of items of the transactions that is contained in at least
\* ceil(f x transactionCount) of them is the item set of a returned itemset.
C1_Completeness ==
  (pc = "Done" /\ execs = 1 /\ InOpenUnit(ctorSupport)) =>
    LET returnedSets == { Range(Returned[j].items) : j \in 1..Len(Returned) }
    IN \A S \in (SUBSET ItemsIn(_transactions)) \ {{}} :
         (Support(S, _transactions) >= Threshold) => (S \in returnedSets)

\* C1 witness: a fresh exec with 0 < f < 1 over three distinct items has
\* returned the two-item set {2, 3} and has left another pair out.
C1_Witness ==
  /\ pc = "Done" /\ execs = 1 /\ InOpenUnit(ctorSupport)
  /\ Cardinality(ItemsIn(_transactions)) = 3
  /\ \E j \in 1..Len(Returned) : Returned[j].items = <<2, 3>>
  /\ \E S \in SUBSET Items : Cardinality(S) = 2 /\ Support(S, _transactions) < Threshold

\* C2: support correctness.  Every returned itemset, of any size, reports as
\* its support the number of transactions that contain all its items, a
\* repeated item counting once.
C2_SupportIsTransactionCount ==
  (pc = "Done") =>
    \A j \in 1..Len(Returned) :
      Returned[j].support = Support(Range(Returned[j].items), _transactions)

\* C3: threshold invariant.  In every execution on a miner constructed with
\* 0 < f < 1 the threshold in use is ceil(f x transactionCount), and every
\* itemset emitted or returned has at least that support, and more than 0.
C3_ThresholdFromFraction ==
  (execs >= 1 /\ InOpenUnit(ctorSupport)) =>
    /\ _support = Frac(Threshold, 1)
    /\ \A j \in 1..Len(Told) :
         Told[j].support >= Threshold /\ Told[j].support > 0
    /\ \A j \in 1..Len(Returned) :
         Returned[j].support >= Threshold /\ Returned[j].support > 0

\* C4: determinism under reuse.  An exec that repeats the transaction list
\* of the exec before it, on the same miner, returns the same itemsets with
\* the same supports.
C4_SameInputSameItemsets ==
  (pc = "Done" /\ prev.same /\ InOpenUnit(ctorSupport)) =>
    (Range(Returned) = Range(prev.itemsets))

\* C5: notification ordering.  The listener is told of exactly the itemsets
\* found so far, once each, in the order the result lists them (sizes
\* ascending), and of each before the callback is called and the promise
\* resolves.
C5_NotificationOrder ==
  /\ (pc \in {"Loop", "Done"}) => (Told = Found)
  /\ (pc = "Done") => (Told = Returned)
  /\ \A a, b \in 1..Len(Returned) :
       (a < b) => (Len(Returned[a].items) <= Len(Returned[b].items))
  /\ \A a, b \in 1..Len(log) :
       (log[a].type = "data" /\ log[b].type \in {"callback", "resolve"}) => (a < b)

\* C5 witness: an exec given a callback resolved with itemsets of sizes one
\* and two, four or more in all.
C5_Witness ==
  /\ pc = "Done"
  /\ HasSize(Returned, 1) /\ HasSize(Returned, 2) /\ Len(Returned) >= 4
  /\ \E a \in 1..Len(log) : log[a].type = "callback"

\* C6: empty input.  The first exec of a miner, on an empty transaction
\* list, is not rejected, tells the listener nothing, counts no candidate,
\* never enters the loop body, and resolves with no itemsets.
C6_EmptyInput ==
  (execs = 1 /\ _transactions = <<>>) =>
    /\ pc \in {"Loop", "Done"}
    /\ DataLog = <<>>
    /\ evaluated = 0
    /\ i = 0
    /\ frequentItemsets = << <<>> >>
    /\ (pc = "Done") => (Returned = <<>> /\ log[Len(log)].type = "resolve")

\* C6 witness: the exec on the empty list has resolved.
C6_Witness == pc = "Done" /\ execs = 1 /\ _transactions = <<>> /\ InOpenUnit(ctorSupport)

\* C7: invalid configuration.  No exec ever runs on a miner whose
\* constructor was given a fraction outside (0,1): construction fails.
C7_OutOfRangeNeverRuns == (execs > 0) => InOpenUnit(ctorSupport)

\* C8: listener fault isolation.  With a listener that throws, exec is not
\* rejected and resolves with the itemsets a returning listener would see.
C8_ListenerFaultIsolated ==
  (listener = "throws" /\ pc \in {"Done", "Rejected"}) =>
    (pc = "Done" /\ Returned = Mine(_transactions, _support))

\* C9: anti-monotonicity.  For every itemset of size k >= 2 found, each of
\* its subsets with one item left out is the item set of a found itemset of
\* size k - 1.
C9_AntiMonotone ==
  (pc \in {"Loop", "Done"}) =>
    LET found == Found
    IN \A j \in 1..Len(found) :
         (Len(found[j].items) >= 2) =>
           \A p \in 1..Len(found[j].items) :
             \E h \in 1..Len(found) :
               /\ Len(found[h].items) = Len(found[j].items) - 1
               /\ Range(found[h].items) = Range(Without(found[j].items, p))

\* C9 witness: a resolved exec with a positive threshold returned two
\* two-item sets and went on to count a three-item candidate.
C9_Witness ==
  /\ pc = "Done" /\ _support.num > 0
  /\ i = 2 /\ evaluated = 7
  /\ Len(frequentItemsets[2]) >= 2

\* C10: termination.  A running loop reaches Done; a level is computed only
\* after a non-empty one; the levels stay within the number of distinct
\* items plus one; at Done the last level is the only empty one.
C10_Termination ==
  /\ (pc = "Loop") ~> (pc = "Done")
  /\ [][(pc = "Loop" /\ pc' = "Loop") => (Len(frequentItemsets[i + 1]) > 0 /\ i' = i + 1 /\ Len(frequentItemsets') = i' + 1)]_vars
  /\ []((pc \in {"Loop", "Done"}) => (Len(frequentItemsets) <= Cardinality(ItemsIn(_transactions)) + 1))
  /\ []((pc = "Done") => (\A j \in 1..Len(frequentItemsets) : (Len(frequentItemsets[j]) = 0) <=> (j = Len(frequentItemsets))))

\* C10 witness: with threshold 0 the loop went through three non-empty
\* levels and stopped at the fourth, empty one.
C10_Witness ==
  /\ pc = "Done" /\ _support.num = 0 /\ Len(_transactions) > 0
  /\ i = 3 /\ Len(frequentItemsets) = 4

====
